---- MODULE Spec2Model ----
(***************************************************************************)
(* Model of the plumbing package (blob and tree objects, the on-disk       *)
(* object store under ./.git/objects) and of the mygit command helpers.    *)
(*                                                                         *)
(* Bytes are naturals 0..255, byte strings are sequences of bytes.  A Go   *)
(* string of hexadecimal digits is a sequence of digit values 0..15.       *)
(* crypto/sha1 and compress/zlib are library code: Sha1 is a deterministic *)
(* 20-byte digest of its input, Compress/Decompress a framing with a       *)
(* two-byte header and a trailing checksum that Decompress verifies.       *)
(***************************************************************************)
EXTENDS Naturals, Integers, Sequences, FiniteSets, TLC

VARIABLES
    privileged,  \* does the process bypass permission bits (uid 0)
    workdir,     \* the directory listing NewTreeObjectFromFilePath reads
    dirs,        \* directories that exist under ./.git/objects
    files,       \* path -> [data, perm] of the files under ./.git/objects
    wr,          \* per writer: the WriteToFile call in progress
    cin,         \* the decompressed bytes of a stored object (codec runs)
    cop,         \* the read operation applied to cin
    cres,        \* the result of that operation
    tst          \* build / encode / decode of a tree from workdir

vars == <<privileged, workdir, dirs, files, wr, cin, cop, cres, tst>>

(***************************************************************************)
(* Bounds of the model.                                                    *)
(***************************************************************************)
MaxLen == 2          \* longest blob payload drawn
MaxTreeEntries == 2  \* most entries in a stored tree payload drawn
MaxEntries == 2      \* most entries in one directory listing
MaxPersists == 2     \* WriteToFile calls started in one behaviour

(***************************************************************************)
(* Bytes and tokens of the source.                                         *)
(***************************************************************************)
NUL == 0                                  \* "\x00"
SP == 32                                  \* " "
BlobTok == <<98, 108, 111, 98>>           \* Blob ObjectType = "blob"
TreeTok == <<116, 114, 101, 101>>         \* Tree = "tree"
Dir == <<52, 48, 48, 48, 48>>             \* "40000"
Symlink == <<49, 50, 48, 48, 48, 48>>     \* "120000"
Regular == <<49, 48, 48, 54, 52, 52>>     \* "100644"
Executable == <<49, 48, 48, 55, 53, 53>>  \* "100755"
DotGit == <<46, 103, 105, 116>>           \* ".git"
ShaLen == 20                              \* sha1.Size, and the literal 20

Range(s) == {s[i] : i \in 1..Len(s)}

RECURSIVE Flatten(_)
Flatten(ss) == IF ss = <<>> THEN <<>> ELSE Head(ss) \o Flatten(Tail(ss))

(***************************************************************************)
(* bytes.Cut and bytes.Split with a one-byte separator.                    *)
(***************************************************************************)
IndexByte(s, c) ==
    IF \E i \in 1..Len(s) : s[i] = c
    THEN CHOOSE i \in 1..Len(s) : s[i] = c /\ \A j \in 1..(i - 1) : s[j] # c
    ELSE 0

Cut(s, c) ==
    LET i == IndexByte(s, c) IN
    IF i = 0
    THEN [before |-> s, after |-> <<>>, found |-> FALSE]
    ELSE [before |-> SubSeq(s, 1, i - 1),
          after |-> SubSeq(s, i + 1, Len(s)),
          found |-> TRUE]

RECURSIVE Split(_, _)
Split(s, c) ==
    LET r == Cut(s, c) IN
    IF r.found THEN <<r.before>> \o Split(r.after, c) ELSE <<s>>

(***************************************************************************)
(* fmt's %d of a non-negative int, and strconv.Atoi: an optional sign and  *)
(* then one or more decimal digits.                                        *)
(***************************************************************************)
RECURSIVE Itoa(_)
Itoa(n) == IF n < 10 THEN <<48 + n>> ELSE Itoa(n \div 10) \o <<48 + (n % 10)>>

IsDigit(c) == c >= 48 /\ c <= 57

RECURSIVE DigitsVal(_)
DigitsVal(s) ==
    IF s = <<>> THEN 0
    ELSE DigitsVal(SubSeq(s, 1, Len(s) - 1)) * 10 + (s[Len(s)] - 48)

Atoi(s) ==
    LET signed == s # <<>> /\ s[1] \in {43, 45}
        body == IF signed THEN Tail(s) ELSE s
    IN  IF body = <<>> \/ \E i \in 1..Len(body) : ~IsDigit(body[i])
        THEN [ok |-> FALSE, val |-> 0]
        ELSE [ok |-> TRUE,
              val |-> IF signed /\ s[1] = 45 THEN 0 - DigitsVal(body)
                      ELSE DigitsVal(body)]

(***************************************************************************)
(* fmt's %x: of one byte (no padding), and of a byte slice (two digits a   *)
(* byte).                                                                  *)
(***************************************************************************)
HexOfByte(b) == IF b < 16 THEN <<b>> ELSE <<b \div 16, b % 16>>

HexOfBytes(s) == Flatten([i \in 1..Len(s) |-> <<s[i] \div 16, s[i] % 16>>])

(***************************************************************************)
(* crypto/sha1: a deterministic digest of ShaLen bytes.                    *)
(***************************************************************************)
RECURSIVE SumOver(_, _, _)
SumOver(w, lo, hi) ==
    IF lo > hi THEN 0
    ELSE IF lo = hi THEN w[lo]
    ELSE LET mid == (lo + hi) \div 2 IN SumOver(w, lo, mid) + SumOver(w, mid + 1, hi)

Mix(b) == (173 + SumOver([i \in 1..Len(b) |-> (2 * i + 1) * (b[i] + 1)], 1, Len(b))) % 256
Mix2(b) == (Len(b) + SumOver([i \in 1..Len(b) |-> ((i * i + 3) % 256) * (b[i] + 5)], 1, Len(b))) % 256

Mix3(b) == (91 + SumOver([i \in 1..Len(b) |-> ((i * i * i + 7 * i + 1) % 256) * (b[i] + 11)], 1, Len(b))) % 256

Sha1(b) ==
    LET m1 == Mix(b)
        m2 == Mix2(b)
        m3 == Mix3(b)
    IN  [i \in 1..ShaLen |->
            IF i = 1 THEN m1
            ELSE IF i % 2 = 0 THEN (m2 + 37 * (i - 2)) % 256
            ELSE (m3 + 59 * (i - 3)) % 256]

(***************************************************************************)
(* compress/zlib: header 0x78 0x9c, the data, a checksum of the data.      *)
(***************************************************************************)
Checksum(b) == (1 + SumOver(b, 1, Len(b))) % 251

Compress(b) == <<120, 156>> \o b \o <<Checksum(b)>>

\* st: "ok", "header" (zlib.NewReader fails), "body" (io.ReadAll fails)
Decompress(c) ==
    IF Len(c) < 2 \/ SubSeq(c, 1, 2) # <<120, 156>>
    THEN [st |-> "header", data |-> <<>>]
    ELSE LET d == SubSeq(c, 3, Len(c) - 1) IN
         IF Len(c) < 3 \/ c[Len(c)] # Checksum(d)
         THEN [st |-> "body", data |-> <<>>]
         ELSE [st |-> "ok", data |-> d]

(***************************************************************************)
(* Results of the constructors: a Go pair (object, error), or a panic.     *)
(*   "ok"     (object, nil)                                                *)
(*   "err"    (nil, err) with err non-nil                                  *)
(*   "nilnil" (nil, nil): neither an object nor an error                   *)
(*   "panic"  a run-time panic, nothing is returned                        *)
(***************************************************************************)
Ok(o) == [st |-> "ok", obj |-> o, err |-> "nil"]
Err(e) == [st |-> "err", obj |-> <<>>, err |-> e]
NilNil == [st |-> "nilnil", obj |-> <<>>, err |-> "nil"]
Panic == [st |-> "panic", obj |-> <<>>, err |-> "nil"]
Blocked == [st |-> "blocked", obj |-> <<>>, err |-> "nil"]   \* the call never returns

(***************************************************************************)
(* BlobObject.                                                             *)
(***************************************************************************)
BlobSerializeDecompressed(b) ==
    b.Header \o <<SP>> \o Itoa(b.Size) \o <<NUL>> \o b.Content

BlobSerializeCompressed(b) == Compress(BlobSerializeDecompressed(b))

\* A variant that takes the content as the second part of a split on NUL
\* (as CatFile does), so that it ends at the payload's first NUL.
deserializeDecompressedBlobObject_SplitNul(b) ==
    LET c1 == Cut(b, SP) IN
    IF ~c1.found THEN Err("ErrInvalidBlobObject")
    ELSE LET c2 == Cut(c1.after, NUL) IN
         IF ~c2.found THEN Err("ErrInvalidBlobObject")
         ELSE LET header == c1.before
                  content == Split(c1.after, NUL)[2]
                  size == Atoi(c2.before)
              IN  IF ~size.ok THEN Err("strconv.ErrSyntax")
                  ELSE IF header # BlobTok \/ size.val # Len(content)
                       THEN NilNil
                       ELSE Ok([Header |-> header,
                                Size |-> size.val,
                                Content |-> content,
                                Sha |-> Sha1(b)])

deserializeDecompressedBlobObject(b) ==
    LET c1 == Cut(b, SP) IN
    IF ~c1.found THEN Err("ErrInvalidBlobObject")
    ELSE LET c2 == Cut(c1.after, NUL) IN
         IF ~c2.found THEN Err("ErrInvalidBlobObject")
         ELSE LET header == c1.before
                  content == c2.after
                  size == Atoi(c2.before)
              IN  IF ~size.ok THEN Err("strconv.ErrSyntax")
                  ELSE IF header # BlobTok \/ size.val # Len(content)
                       THEN NilNil      \* return nil, err with err = nil
                       ELSE Ok([Header |-> header,
                                Size |-> size.val,
                                Content |-> content,
                                Sha |-> Sha1(b)])

\* The file is not a directory; its content is the file's bytes or, for a
\* symbolic link, the link target.
\* os.Lstat, then os.Readlink of a symbolic link and os.ReadFile of anything
\* else.  os.ReadFile opens the path for reading: open(2) of a socket fails
\* with ENXIO, open(2) of a FIFO blocks until a writer has opened it, and a
\* device or a FIFO with a writer yields bytes like a regular file.
NewBlobObjectFromFilePath(file) ==
    IF file.type = "dir" THEN Err("Blob objects can't be made from directories.")
    ELSE IF file.type = "socket" THEN Err("ENXIO")
    ELSE IF file.type = "fifo" /\ ~file.writer THEN Blocked
    ELSE deserializeDecompressedBlobObject(
             BlobTok \o <<SP>> \o Itoa(Len(file.content)) \o <<NUL>> \o file.content)

(***************************************************************************)
(* TreeObject.                                                             *)
(***************************************************************************)
EntryBytes(e) == e.Mode \o <<SP>> \o e.Name \o <<NUL>> \o e.Sha

TreeSerializeDecompressed(t) ==
    LET content == Flatten([i \in 1..Len(t.Entries) |-> EntryBytes(t.Entries[i])])
    IN  t.Header \o <<SP>> \o Itoa(Len(content)) \o <<NUL>> \o content

TreeSerializeCompressed(t) == Compress(TreeSerializeDecompressed(t))

fileInfoToFileType(file) ==
    IF file.type = "dir" THEN Dir
    ELSE IF file.type = "symlink" THEN Symlink
    ELSE IF file.exec THEN Executable
    ELSE Regular

RECURSIVE NewTreeObjectFromFilePath(_)

\* One iteration of the loop over the listing: the entry and the object
\* (subtree or blob) it will write.
TreeEntryOfFile(file) ==
    IF file.type = "dir"
    THEN LET subtree == NewTreeObjectFromFilePath(file.children) IN
         [Header |-> TreeTok, Mode |-> Dir, Name |-> file.name,
          Sha |-> subtree.obj.Sha, w |-> subtree.obj]
    ELSE LET blob == NewBlobObjectFromFilePath(file) IN
         [Header |-> BlobTok, Mode |-> fileInfoToFileType(file),
          Name |-> file.name, Sha |-> blob.obj.Sha, w |-> blob.obj]

\* The call the loop makes for one file: the subtree of a directory, the
\* blob of anything else.
ObjectOfFile(file) ==
    IF file.type = "dir" THEN NewTreeObjectFromFilePath(file.children)
    ELSE NewBlobObjectFromFilePath(file)

NewTreeObjectFromFilePath(listing) ==
    LET fs == SelectSeq(listing, LAMBDA f : f.name # DotGit)
        failed == {i \in 1..Len(fs) : ObjectOfFile(fs[i]).st # "ok"}
        entries == [i \in 1..Len(fs) |-> TreeEntryOfFile(fs[i])]
        content == Flatten([i \in 1..Len(entries) |-> EntryBytes(entries[i])])
        tree == TreeTok \o <<SP>> \o Itoa(Len(content)) \o <<NUL>> \o content
    IN  IF failed # {}          \* "return nil, err" at the first file that fails
        THEN ObjectOfFile(fs[CHOOSE i \in failed : \A j \in failed : i <= j])
        ELSE Ok([Header |-> TreeTok,
                 Entries |-> entries,
                 Size |-> 0,            \* t.Size is never assigned
                 Sha |-> Sha1(tree)])

\* The loop "for ok { ... }" of deserializeDecompressedTreeObject: the
\* entries parsed from content, an error, or a panic of a slice expression.
RECURSIVE TreeEntriesLoop(_, _)
TreeEntriesLoop(content, entries) ==
    LET c1 == Cut(content, SP) IN
    IF ~c1.found THEN Err("ErrInvalidTreeObject")
    ELSE LET c2 == Cut(c1.after, NUL) IN
         IF ~c2.found THEN Err("ErrInvalidTreeObject")
         ELSE LET rest == c2.after
                  entry(sha) ==
                      [Header |-> IF c1.before = Dir THEN TreeTok ELSE BlobTok,
                       Mode |-> c1.before, Name |-> c2.before,
                       Sha |-> sha, w |-> "nil"]
              IN  IF Len(rest) = ShaLen
                  THEN Ok(Append(entries, entry(rest)))
                  ELSE IF Len(rest) < ShaLen
                       THEN Panic   \* content[:20] or content[20:] out of range
                       ELSE TreeEntriesLoop(
                                SubSeq(rest, ShaLen + 1, Len(rest)),
                                Append(entries, entry(SubSeq(rest, 1, ShaLen))))

deserializeDecompressedTreeObject(b) ==
    LET c == Cut(b, NUL)
        meta == Split(c.before, SP)
    IN  IF ~c.found \/ Len(meta) # 2 THEN Err("ErrInvalidTreeObject")
        ELSE LET header == meta[1]
                 size == Atoi(meta[2])
             IN  IF ~size.ok \/ header # TreeTok \/ size.val # Len(c.after)
                 THEN Err("ErrInvalidTreeObject")
                 ELSE LET r == TreeEntriesLoop(c.after, <<>>) IN
                      IF r.st # "ok" THEN r
                      ELSE Ok([Header |-> TreeTok,
                               Entries |-> r.obj,
                               Size |-> size.val,
                               Sha |-> Sha1(b)])

(***************************************************************************)
(* The object store: files under ./.git/objects.  A path is                *)
(* <<directory name, file name>>, both strings of hexadecimal digits.      *)
(* os.WriteFile's FileMode keeps its permission bits (mode & 0777); the    *)
(* owner's bits decide unless the process is privileged.  The umask is     *)
(* taken to leave the owner's bits alone (022).                            *)
(***************************************************************************)
BlobPerm == 292      \* 0444, BlobObject.WriteToFile
TreePerm == 4644     \* 4644 (decimal), TreeObject.WriteToFile
HashPerm == 493      \* 0755, HashBlobObject

Perm(mode) == mode % 512
OwnerRead(perm) == (perm \div 256) % 2 = 1
OwnerWrite(perm) == (perm \div 128) % 2 = 1

\* hash[:2], hash[2:] of the hexadecimal string the caller passes
PathOfHash(hash) == <<SubSeq(hash, 1, 2), SubSeq(hash, 3, Len(hash))>>

\* os.ReadFile
ReadFile(fs, priv, path) ==
    IF path \notin DOMAIN fs THEN [ok |-> FALSE, data |-> <<>>, err |-> "ENOENT"]
    ELSE IF ~priv /\ ~OwnerRead(fs[path].perm)
         THEN [ok |-> FALSE, data |-> <<>>, err |-> "EACCES"]
         ELSE [ok |-> TRUE, data |-> fs[path].data, err |-> "nil"]

\* A variant that also compares the declared size with the payload length,
\* as the blob and tree decoders do.
ParseGitObjectMetadata_CheckLen(decompressed) ==
    LET c == Cut(decompressed, NUL) IN
    IF ~c.found THEN Err("ErrInvalidGitObject")
    ELSE LET parts == Split(c.before, SP) IN
         IF Len(parts) # 2 THEN Err("ErrInvalidGitObject")
         ELSE IF parts[1] # TreeTok /\ parts[1] # BlobTok
              THEN Err("ErrInvalidGitObject")
              ELSE LET size == Atoi(parts[2]) IN
                   IF ~size.ok \/ size.val < 0 \/ size.val # Len(c.after)
                   THEN Err("ErrInvalidGitObject")
                   ELSE Ok([Header |-> parts[1], Size |-> size.val])

\* The header parse of GetGitObjectMetadata, on the decompressed bytes.
ParseGitObjectMetadata(decompressed) ==
    LET c == Cut(decompressed, NUL) IN
    IF ~c.found THEN Err("ErrInvalidGitObject")
    ELSE LET parts == Split(c.before, SP) IN
         IF Len(parts) # 2 THEN Err("ErrInvalidGitObject")
         ELSE IF parts[1] # TreeTok /\ parts[1] # BlobTok
              THEN Err("ErrInvalidGitObject")
              ELSE LET size == Atoi(parts[2]) IN
                   IF ~size.ok \/ size.val < 0 THEN Err("ErrInvalidGitObject")
                   ELSE Ok([Header |-> parts[1], Size |-> size.val])

GetGitObjectMetadata(fs, priv, hash) ==
    LET r == ReadFile(fs, priv, PathOfHash(hash)) IN
    IF ~r.ok THEN Err(r.err)
    ELSE LET z == Decompress(r.data) IN
         IF z.st # "ok" THEN Err("zlib")
         ELSE ParseGitObjectMetadata(z.data)

\* deserializeCompressedBlobObject: "defer b.Close()" precedes the error
\* check, and b is a nil interface when zlib.NewReader fails.
deserializeCompressedBlobObject(c) ==
    LET z == Decompress(c) IN
    IF z.st = "header" THEN Panic
    ELSE IF z.st # "ok" THEN Err("zlib")
    ELSE deserializeDecompressedBlobObject(z.data)

NewBlobObjectFromHash(fs, priv, hash) ==
    LET r == ReadFile(fs, priv, PathOfHash(hash)) IN
    IF ~r.ok THEN Err(r.err) ELSE deserializeCompressedBlobObject(r.data)

deserializeCompressedTreeObject(c) ==
    LET z == Decompress(c) IN
    IF z.st = "header" THEN Panic
    ELSE IF z.st # "ok" THEN Err("zlib")
    ELSE deserializeDecompressedTreeObject(z.data)

NewTreeObjectFromHash(fs, priv, hash) ==
    LET r == ReadFile(fs, priv, PathOfHash(hash)) IN
    IF ~r.ok THEN Err(r.err) ELSE deserializeCompressedTreeObject(r.data)

NewGitObjectFromHash(fs, priv, hash) ==
    LET meta == GetGitObjectMetadata(fs, priv, hash) IN
    IF meta.st # "ok" THEN Err(meta.err)
    ELSE IF meta.obj.Header = BlobTok THEN NewBlobObjectFromHash(fs, priv, hash)
    ELSE NewTreeObjectFromHash(fs, priv, hash)

(***************************************************************************)
(* Values of the variables a specification does not use.                   *)
(***************************************************************************)
Writers == {1, 2}
NoFiles == [p \in {} |-> 0]
NoRes == [st |-> "none", obj |-> <<>>, err |-> "nil"]
NoPrev == [st |-> "none", kind |-> "none", what |-> 0, sha |-> <<>>, stored |-> <<>>]
WrIdle ==
    [w \in Writers |->
        [pc |-> "idle", kind |-> "none", what |-> 0, obj |-> <<>>, sha |-> <<>>,
         tasks |-> <<>>, idx |-> 0, run |-> 0, err |-> "nil", prev |-> NoPrev]]
CinNone == [kind |-> <<>>, sep |-> <<>>, size |-> <<>>, nul |-> <<>>,
            payload |-> <<>>, entries |-> <<>>, tcut |-> 0, raw |-> <<>>]
TstNone == [phase |-> "none", obj |-> <<>>, enc |-> <<>>, dec |-> NoRes]

(***************************************************************************)
(* Reading stored objects (SpecCodec).  The store holds one object file,   *)
(* well compressed, whose decompressed bytes are                           *)
(*     kind sep size nul payload                                           *)
(* with every part drawn from well-formed and malformed choices; one read  *)
(* operation is applied to it.                                             *)
(***************************************************************************)
PayloadBytes == {NUL, SP, 97}
BlobPayloads == UNION {[1..n -> PayloadBytes] : n \in 0..MaxLen}

DigestA == [i \in 1..ShaLen |-> IF i = 2 THEN NUL ELSE IF i = 4 THEN SP ELSE 64 + i]
DigestB == [i \in 1..ShaLen |-> 200 + i]
CodecEntries ==
    {[Mode |-> Regular, Name |-> <<97, SP, 98>>, Sha |-> DigestA],
     [Mode |-> Dir, Name |-> <<100>>, Sha |-> DigestB]}
EntryLists == UNION {[1..n -> CodecEntries] : n \in 0..MaxTreeEntries}
EntriesBytes(es) == Flatten([i \in 1..Len(es) |-> EntryBytes(es[i])])
TreeCuts == {0, 1, ShaLen, ShaLen + 1}

\* a payload: the bytes, and for a tree payload its entries and the number
\* of bytes missing at its end
CodecPayloads ==
    {[bytes |-> p, entries |-> <<>>, tcut |-> 0] : p \in BlobPayloads}
    \cup {[bytes |-> SubSeq(EntriesBytes(es), 1, Len(EntriesBytes(es)) - k),
           entries |-> es, tcut |-> k] :
             es \in EntryLists \ {<<>>}, k \in TreeCuts}

KindToks == {BlobTok, TreeTok, <<98, 108, 117, 98>>}
SepToks == {<<SP>>, <<>>, <<SP, SP>>}
NulToks == {<<NUL>>, <<>>}
SizeToks(n) ==
    {Itoa(n), Itoa(n + 1), <<43>> \o Itoa(n), <<45>> \o Itoa(n),
     <<48>> \o Itoa(n), <<>>, <<120>>}

\* the hexadecimal digest of an object's bytes, and a store that holds just
\* that object, compressed, at the path readers look the digest up at
HashOf(raw) == HexOfBytes(Sha1(raw))
StoreOf(raw) ==
    [path \in {PathOfHash(HashOf(raw))} |->
        [data |-> Compress(raw), perm |-> Perm(BlobPerm)]]

CodecHash == HashOf(cin.raw)

InitCodec ==
    /\ privileged = FALSE
    /\ workdir = <<>>
    /\ dirs = {}
    /\ wr = WrIdle
    /\ tst = TstNone
    /\ \E k \in KindToks, sep \in SepToks, nul \in NulToks, p \in CodecPayloads :
         \E sz \in SizeToks(Len(p.bytes)) :
            LET raw == k \o sep \o sz \o nul \o p.bytes IN
            /\ cin = [kind |-> k, sep |-> sep, size |-> sz, nul |-> nul,
                      payload |-> p.bytes, entries |-> p.entries,
                      tcut |-> p.tcut, raw |-> raw]
            /\ files = StoreOf(raw)
    /\ cop = "none"
    /\ cres = NoRes

ReadMetadata ==
    /\ cop = "none"
    /\ cop' = "meta"
    /\ cres' = GetGitObjectMetadata(files, privileged, CodecHash)
    /\ UNCHANGED <<privileged, workdir, dirs, files, wr, cin, tst>>

ReadBlob ==
    /\ cop = "none"
    /\ cop' = "blob"
    /\ cres' = NewBlobObjectFromHash(files, privileged, CodecHash)
    /\ UNCHANGED <<privileged, workdir, dirs, files, wr, cin, tst>>

ReadTree ==
    /\ cop = "none"
    /\ cop' = "tree"
    /\ cres' = NewTreeObjectFromHash(files, privileged, CodecHash)
    /\ UNCHANGED <<privileged, workdir, dirs, files, wr, cin, tst>>

ReadFull ==
    /\ cop = "none"
    /\ cop' = "full"
    /\ cres' = NewGitObjectFromHash(files, privileged, CodecHash)
    /\ UNCHANGED <<privileged, workdir, dirs, files, wr, cin, tst>>

NextCodec == ReadMetadata \/ ReadBlob \/ ReadTree \/ ReadFull

SpecCodec == InitCodec /\ [][NextCodec]_vars

(***************************************************************************)
(* Claims about reading stored objects, checked under SpecCodec.           *)
(***************************************************************************)
\* "blob <len(p)>\0" + p, written out from the format the claim states
BlobEncoding(p) == BlobTok \o <<SP>> \o Itoa(Len(p)) \o <<NUL>> \o p

\* C2: for any byte sequence p (empty, or with spaces or NUL bytes),
\* decoding "blob <len(p)>\0" + p returns a blob whose content is p and
\* whose size is len(p); serializing that blob gives the encoding back.
C2_BlobRoundTrip ==
    cop = "blob" =>
        \A n \in 0..Len(cin.raw) :
            LET p == SubSeq(cin.raw, n + 1, Len(cin.raw)) IN
            cin.raw = BlobEncoding(p) =>
                /\ cres.st = "ok"
                /\ cres.obj.Content = p
                /\ cres.obj.Size = Len(p)
                /\ BlobSerializeDecompressed(cres.obj) = cin.raw

C2_Witness ==
    /\ cop = "blob"
    /\ cin.raw = BlobEncoding(cin.payload)
    /\ NUL \in Range(cin.payload)
    /\ SP \in Range(cin.payload)
    /\ cres.st = "ok"

\* C6: decoding stored blob bytes returns a blob object or a non-nil
\* error, also through NewGitObjectFromHash when it dispatches to the blob
\* decoder (or fails before dispatching): never "no object and no error".
C6_BlobDecodeObjectOrError ==
    LET meta == ParseGitObjectMetadata(cin.raw)
        toTree == meta.st = "ok" /\ meta.obj.Header = TreeTok
    IN  (cop = "blob" \/ (cop = "full" /\ ~toTree)) => cres.st \in {"ok", "err"}

\* an optional sign and decimal digits, denoting a value >= 0
IsNonNegNumeral(s) ==
    LET signed == s # <<>> /\ s[1] \in {43, 45}
        body == IF signed THEN Tail(s) ELSE s
    IN  /\ body # <<>>
        /\ \A i \in 1..Len(body) : IsDigit(body[i])
        /\ (s[1] = 45 => \A i \in 1..Len(body) : body[i] = 48)

\* s denotes n: a sign, leading zeros, and n in decimal
Denotes(s, n) ==
    \E z \in 0..Len(s), sg \in {<<>>, <<43>>, <<45>>} :
        /\ sg = <<45>> => n = 0
        /\ s = sg \o [i \in 1..z |-> 48] \o Itoa(n)

IsObjectHeader(h) ==
    \E kind \in {BlobTok, TreeTok} :
        /\ Len(h) > Len(kind)
        /\ SubSeq(h, 1, Len(kind) + 1) = kind \o <<SP>>
        /\ IsNonNegNumeral(SubSeq(h, Len(kind) + 2, Len(h)))

\* payloads to put after a header in place of the stored one
AltPayloads == {<<>>, <<97>>, <<NUL, SP>>, <<SP, 97, NUL, 97>>}

\* C8: GetGitObjectMetadata returns (kind, size) exactly when the bytes
\* before the first NUL are "<blob|tree> <non-negative decimal integer>",
\* an error otherwise, and the same result whatever follows the NUL.
C8_MetadataHeaderOnly ==
    cop = "meta" =>
        LET c == Cut(cin.raw, NUL) IN
        /\ cres.st \in {"ok", "err"}
        /\ cres.st = "ok" <=> (c.found /\ IsObjectHeader(c.before))
        /\ cres.st = "ok" =>
              /\ cres.obj.Header \in {BlobTok, TreeTok}
              /\ cres.obj.Size >= 0
              /\ \E s \in {SubSeq(c.before, k, Len(c.before)) : k \in 1..(Len(c.before) + 1)} :
                    /\ c.before = cres.obj.Header \o <<SP>> \o s
                    /\ Denotes(s, cres.obj.Size)
        /\ c.found =>
              \A q \in AltPayloads :
                  LET other == c.before \o <<NUL>> \o q IN
                  GetGitObjectMetadata(StoreOf(other), privileged, HashOf(other)) = cres

C8_Witness ==
    /\ cop = "meta"
    /\ cres.st = "ok"
    /\ cres.obj.Size # Len(Cut(cin.raw, NUL).after)

\* C9: decoding a tree whose header declares the payload's length and in
\* whose payload fewer than 20 bytes follow a parsed "<mode> <name>\0"
\* returns an error: no crash, no tree with a short digest.
C9_TruncatedTreeIsError ==
    ( /\ cop \in {"tree", "full"}
      /\ cin.kind = TreeTok /\ cin.sep = <<SP>> /\ cin.nul = <<NUL>>
      /\ cin.size = Itoa(Len(cin.payload))
      /\ cin.entries # <<>>
      /\ cin.tcut \in 1..ShaLen )
    => cres.st = "err"

(***************************************************************************)
(* Directory listings (os.ReadDir order: sorted by name).  A listing is a  *)
(* sequence of files [name, type, exec, writer, content, children]:        *)
(* content is a regular file's bytes, a symbolic link's target or the      *)
(* bytes a device or a FIFO's writer delivers before end of file, writer   *)
(* says whether a FIFO has a writer, children is the listing of a          *)
(* directory.  Directories nest one level.                                 *)
(***************************************************************************)
NameAt(i) == IF i = 1 THEN <<97>> ELSE <<96 + i, SP, 99>>     \* "a", "b c", ...
FileKinds ==
    {[type |-> "regular", exec |-> FALSE, writer |-> FALSE],
     [type |-> "regular", exec |-> TRUE, writer |-> FALSE],
     [type |-> "symlink", exec |-> TRUE, writer |-> FALSE]}
FileContents == {<<>>, <<97>>, <<NUL, SP>>}

FilesAt(i, kinds) ==
    {[name |-> NameAt(i), type |-> k.type, exec |-> k.exec, writer |-> k.writer,
      content |-> c, children |-> <<>>] : k \in kinds, c \in FileContents}

LeafListings(kinds) == {<<>>} \cup {<<f>> : f \in FilesAt(1, kinds)}

DirsAt(i, kinds) ==
    {[name |-> NameAt(i), type |-> "dir", exec |-> TRUE, writer |-> FALSE,
      content |-> <<>>, children |-> l] : l \in LeafListings(kinds)}

EntriesAt(i, kinds) == FilesAt(i, kinds) \cup DirsAt(i, kinds)

Listings(n, kinds) ==
    {l \in [1..n -> UNION {EntriesAt(i, kinds) : i \in 1..n}] :
        \A i \in 1..n : l[i] \in EntriesAt(i, kinds)}

WorkDirs(kinds) == UNION {Listings(n, kinds) : n \in 0..MaxEntries}

DotGitDir == [name |-> DotGit, type |-> "dir", exec |-> TRUE, writer |-> FALSE,
              content |-> <<>>, children |-> <<>>]

(***************************************************************************)
(* Building a tree from a directory, encoding it and decoding the bytes    *)
(* (SpecTree).                                                             *)
(***************************************************************************)
InitTree ==
    /\ privileged = FALSE
    /\ \E l \in WorkDirs(FileKinds), git \in BOOLEAN :
          workdir = IF git THEN <<DotGitDir>> \o l ELSE l
    /\ dirs = {}
    /\ files = NoFiles
    /\ wr = WrIdle
    /\ cin = CinNone
    /\ cop = "none"
    /\ cres = NoRes
    /\ tst = [phase |-> "start", obj |-> <<>>, enc |-> <<>>, dec |-> NoRes]

TBuild ==
    /\ tst.phase = "start"
    /\ tst' = [tst EXCEPT !.phase = "built",
                          !.obj = NewTreeObjectFromFilePath(workdir).obj]
    /\ UNCHANGED <<privileged, workdir, dirs, files, wr, cin, cop, cres>>

TEncode ==
    /\ tst.phase = "built"
    /\ tst' = [tst EXCEPT !.phase = "encoded",
                          !.enc = TreeSerializeDecompressed(tst.obj)]
    /\ UNCHANGED <<privileged, workdir, dirs, files, wr, cin, cop, cres>>

TDecode ==
    /\ tst.phase = "encoded"
    /\ tst' = [tst EXCEPT !.phase = "decoded",
                          !.dec = deserializeDecompressedTreeObject(tst.enc)]
    /\ UNCHANGED <<privileged, workdir, dirs, files, wr, cin, cop, cres>>

NextTree == TBuild \/ TEncode \/ TDecode

SpecTree == InitTree /\ [][NextTree]_vars

\* the size field of an object and of every object below it is the length
\* of its payload
RECURSIVE SizesArePayloadLengths(_)
SizesArePayloadLengths(o) ==
    IF o.Header = BlobTok THEN o.Size = Len(o.Content)
    ELSE /\ o.Size = Len(EntriesBytes(o.Entries))
         /\ \A i \in 1..Len(o.Entries) :
               o.Entries[i].w = "nil" \/ SizesArePayloadLengths(o.Entries[i].w)

\* C7: every object the system constructs, built from a path or decoded,
\* blob or tree, has a size field equal to the length of its payload.
C7_SizeIsPayloadLength ==
    /\ tst.phase \in {"built", "encoded", "decoded"} => SizesArePayloadLengths(tst.obj)
    /\ (tst.phase = "decoded" /\ tst.dec.st = "ok") =>
           tst.dec.obj.Size = Len(EntriesBytes(tst.dec.obj.Entries))

\* C10: decoding the encoded bytes of a tree built from any directory,
\* an empty one included, returns the same entries (mode, name, digest)
\* in the same order.
C10_TreeRoundTrip ==
    tst.phase = "decoded" =>
        /\ tst.dec.st = "ok"
        /\ Len(tst.dec.obj.Entries) = Len(tst.obj.Entries)
        /\ \A i \in 1..Len(tst.obj.Entries) :
              /\ tst.dec.obj.Entries[i].Mode = tst.obj.Entries[i].Mode
              /\ tst.dec.obj.Entries[i].Name = tst.obj.Entries[i].Name
              /\ tst.dec.obj.Entries[i].Sha = tst.obj.Entries[i].Sha

(***************************************************************************)
(* Writing objects (Spec).  A writer is one invocation of the program on   *)
(* the repository; it runs WriteToFile of a tree built from workdir, of    *)
(* the blob of one of workdir's files, or HashBlobObject with write set.   *)
(* A call is unfolded into its file operations, one model step each:       *)
(* os.MkdirAll, then os.WriteFile's open(O_WRONLY|O_CREATE|O_TRUNC) and    *)
(* its write.  tasks lists the object files of the call in the order       *)
(* WriteToFile reaches them: a tree's entries first, the tree last.        *)
(***************************************************************************)
BlobWriteTask(b) ==
    [dir |-> HexOfByte(b.Sha[1]), file |-> HexOfBytes(Tail(b.Sha)),
     data |-> BlobSerializeCompressed(b), mode |-> BlobPerm, sha |-> b.Sha]

RECURSIVE TreeWriteTasks(_)
TreeWriteTasks(t) ==
    Flatten([i \in 1..Len(t.Entries) |->
                IF t.Entries[i].Header = TreeTok
                THEN TreeWriteTasks(t.Entries[i].w)
                ELSE <<BlobWriteTask(t.Entries[i].w)>>])
    \o <<[dir |-> HexOfByte(t.Sha[1]), file |-> HexOfBytes(Tail(t.Sha)),
          data |-> TreeSerializeCompressed(t), mode |-> TreePerm, sha |-> t.Sha]>>

HashBlobObjectTask(b) ==
    LET content == BlobTok \o <<SP>> \o Itoa(Len(b)) \o <<NUL>> \o b
        hash == HexOfBytes(Sha1(content))
    IN  [dir |-> SubSeq(hash, 1, 2), file |-> SubSeq(hash, 3, Len(hash)),
         data |-> Compress(content), mode |-> HashPerm, sha |-> Sha1(content)]

StoreFileKinds == {[type |-> "regular", exec |-> FALSE, writer |-> FALSE]}

Init ==
    /\ privileged \in BOOLEAN
    /\ workdir \in WorkDirs(StoreFileKinds)
    /\ dirs = {}
    /\ files = NoFiles
    /\ wr = WrIdle
    /\ cin = CinNone
    /\ cop = "none"
    /\ cres = NoRes
    /\ tst = TstNone

Started == wr[1].run + wr[2].run
CanStart(w) == wr[w].pc \in {"idle", "done", "failed"} /\ Started < MaxPersists

\* what the call that ended leaves to compare the next one with
Ended(w) ==
    IF wr[w].run = 0 THEN NoPrev
    ELSE LET t == wr[w].tasks[Len(wr[w].tasks)]
             path == <<t.dir, t.file>>
         IN  [st |-> wr[w].pc, kind |-> wr[w].kind, what |-> wr[w].what,
              sha |-> wr[w].sha,
              stored |-> IF path \in DOMAIN files THEN files[path].data ELSE <<>>]

Begin(w, kind, what, obj, sha, tasks) ==
    /\ wr' = [wr EXCEPT ![w] =
                 [pc |-> "mkdir", kind |-> kind, what |-> what, obj |-> obj,
                  sha |-> sha, tasks |-> tasks, idx |-> 1,
                  run |-> wr[w].run + 1, err |-> "nil", prev |-> Ended(w)]]
    /\ UNCHANGED <<privileged, workdir, dirs, files, cin, cop, cres, tst>>

PersistTree(w) ==
    /\ CanStart(w)
    /\ LET t == NewTreeObjectFromFilePath(workdir).obj IN
       Begin(w, "tree", 0, t, t.Sha, TreeWriteTasks(t))

PersistBlob(w, i) ==
    /\ CanStart(w)
    /\ i \in 1..Len(workdir)
    /\ workdir[i].type # "dir"
    /\ LET b == NewBlobObjectFromFilePath(workdir[i]).obj IN
       Begin(w, "blob", i, b, b.Sha, <<BlobWriteTask(b)>>)

HashBlobObject(w, i) ==
    /\ CanStart(w)
    /\ i \in 1..Len(workdir)
    /\ workdir[i].type # "dir"
    /\ LET t == HashBlobObjectTask(workdir[i].content) IN
       Begin(w, "hash", i, <<>>, t.sha, <<t>>)

Task(w) == wr[w].tasks[wr[w].idx]

MkdirAll(w) ==
    /\ wr[w].pc = "mkdir"
    /\ dirs' = dirs \cup {Task(w).dir}
    /\ wr' = [wr EXCEPT ![w].pc = "open"]
    /\ UNCHANGED <<privileged, workdir, files, cin, cop, cres, tst>>

\* open(name, O_WRONLY|O_CREATE|O_TRUNC, perm)
OpenFile(w) ==
    /\ wr[w].pc = "open"
    /\ LET path == <<Task(w).dir, Task(w).file>> IN
       IF Task(w).dir \notin dirs
       THEN /\ wr' = [wr EXCEPT ![w].pc = "failed", ![w].err = "ENOENT"]
            /\ UNCHANGED files
       ELSE IF path \in DOMAIN files /\ ~privileged /\ ~OwnerWrite(files[path].perm)
       THEN /\ wr' = [wr EXCEPT ![w].pc = "failed", ![w].err = "EACCES"]
            /\ UNCHANGED files
       ELSE /\ files' = [q \in DOMAIN files \cup {path} |->
                           IF q = path
                           THEN [data |-> <<>>,
                                 perm |-> IF path \in DOMAIN files
                                          THEN files[path].perm
                                          ELSE Perm(Task(w).mode)]
                           ELSE files[q]]
            /\ wr' = [wr EXCEPT ![w].pc = "write"]
    /\ UNCHANGED <<privileged, workdir, dirs, cin, cop, cres, tst>>

WriteData(w) ==
    /\ wr[w].pc = "write"
    /\ LET path == <<Task(w).dir, Task(w).file>> IN
       files' = [files EXCEPT ![path].data = Task(w).data]
    /\ wr' = IF wr[w].idx < Len(wr[w].tasks)
             THEN [wr EXCEPT ![w].pc = "mkdir", ![w].idx = wr[w].idx + 1]
             ELSE [wr EXCEPT ![w].pc = "done"]
    /\ UNCHANGED <<privileged, workdir, dirs, cin, cop, cres, tst>>

Next ==
    \E w \in Writers :
        \/ PersistTree(w)
        \/ \E i \in 1..MaxEntries : PersistBlob(w, i)
        \/ \E i \in 1..MaxEntries : HashBlobObject(w, i)
        \/ MkdirAll(w)
        \/ OpenFile(w)
        \/ WriteData(w)

Spec == Init /\ [][Next]_vars

(***************************************************************************)
(* Claims about writing objects, checked under Spec.                       *)
(***************************************************************************)
\* no other writer has started a call
Solo(w) == \A v \in Writers \ {w} : wr[v].run = 0

\* readFull by the 40-hex-character form of a digest succeeds
CanRead(sha) == NewGitObjectFromHash(files, privileged, HexOfBytes(sha)).st = "ok"

\* C1: after WriteToFile of a blob or tree returns without error, for the
\* digest d of every object it wrote, the file objects/<hex(d)[0:2]>/
\* <hex(d)[2:40]> exists, and reading by the 40-hex form of d finds the
\* object and decodes bytes whose hash is d.
C1_PersistedObjectIsReadable ==
    \A w \in Writers :
        (wr[w].pc = "done" /\ wr[w].kind \in {"blob", "tree"} /\ Solo(w)) =>
            \A k \in 1..Len(wr[w].tasks) :
                LET d == wr[w].tasks[k].sha
                    r == NewGitObjectFromHash(files, privileged, HexOfBytes(d))
                IN  /\ PathOfHash(HexOfBytes(d)) \in DOMAIN files
                    /\ r.st = "ok"
                    /\ r.obj.Sha = d

\* C3: persisting the same object a second time, after the first persist
\* succeeded, yields the same digest, returns no error, and leaves the
\* bytes stored for the object as the first persist left them.
C3_SecondPersistIsNoOp ==
    \A w \in Writers :
        ( /\ wr[w].run >= 2 /\ wr[w].pc \in {"done", "failed"} /\ Solo(w)
          /\ wr[w].prev.st = "done"
          /\ wr[w].prev.kind = wr[w].kind /\ wr[w].prev.what = wr[w].what )
        => /\ wr[w].pc = "done"
           /\ wr[w].sha = wr[w].prev.sha
           /\ Ended(w).stored = wr[w].prev.stored

RECURSIVE ReadableTreesHaveReadableEntries(_)
ReadableTreesHaveReadableEntries(t) ==
    /\ CanRead(t.Sha) => \A i \in 1..Len(t.Entries) : CanRead(t.Entries[i].Sha)
    /\ \A i \in 1..Len(t.Entries) :
          t.Entries[i].Header = TreeTok =>
              ReadableTreesHaveReadableEntries(t.Entries[i].w)

\* C4: in every state during or after WriteToFile of a tree built from a
\* directory, a tree (the top one or a subtree) that can be read by its
\* digest has only entries that can be read by their digests.
C4_ReadableTreeHasReadableEntries ==
    \A w \in Writers :
        wr[w].kind = "tree" => ReadableTreesHaveReadableEntries(wr[w].obj)

\* C5: when two writers persist the same object, each once, then in every
\* interleaving of their steps both finish without an error, and once both
\* have finished the store holds the object's complete compressed bytes
\* under its digest.
C5_ConcurrentWritersBothSucceed ==
    ( /\ \A w \in Writers : wr[w].run = 1 /\ wr[w].pc \in {"done", "failed"}
      /\ wr[1].kind = wr[2].kind /\ wr[1].what = wr[2].what )
    => /\ \A w \in Writers : wr[w].pc = "done"
       /\ LET path == PathOfHash(HexOfBytes(wr[1].sha))
              t == wr[1].tasks[Len(wr[1].tasks)]
          IN  path \in DOMAIN files /\ files[path].data = t.data

(***************************************************************************)
(* Classifying the files of a directory (SpecBuild): the tree builder of   *)
(* package plumbing and the write-tree command of cmd/mygit, on            *)
(* directories that may hold devices, FIFOs and sockets.                   *)
(***************************************************************************)
MainDir == <<48, 52, 48, 48, 48, 48>>     \* Dir FileType = "040000"
MainSymlink == Symlink                    \* "120000"
RegularFile == Regular                    \* "100644"
ExecutableFile == Executable              \* "100755"

\* The switch of WriteTree's loop; <<>> stands for its default branch.
WriteTreeMode(file) ==
    IF file.type = "dir" THEN MainDir
    ELSE IF file.type = "symlink" THEN MainSymlink
    ELSE IF file.type = "regular" /\ file.exec THEN ExecutableFile
    ELSE IF file.type = "regular" THEN RegularFile
    ELSE <<>>

\* WriteTree returns ("", nil) or ("", err); entries is its local slice of
\* len(files)+1 entries, printed as it is filled, whose first stays zero.
WriteTree(listing) ==
    LET zero == [mode |-> <<>>, name |-> <<>>]
        entry(i) == [mode |-> WriteTreeMode(listing[i]), name |-> listing[i].name]
    IN  IF \E i \in 1..Len(listing) : WriteTreeMode(listing[i]) = <<>>
        THEN Err("Could not handle unknown file type.")
        ELSE Ok([out |-> <<>>,
                 entries |-> <<zero>> \o [i \in 1..Len(listing) |-> entry(i)]])

OtherTypes == {"device", "fifo", "socket"}
OtherKinds ==
    {[type |-> "device", exec |-> FALSE, writer |-> FALSE],
     [type |-> "device", exec |-> TRUE, writer |-> FALSE],
     [type |-> "fifo", exec |-> FALSE, writer |-> TRUE],
     [type |-> "fifo", exec |-> FALSE, writer |-> FALSE],
     [type |-> "socket", exec |-> TRUE, writer |-> FALSE]}
BuildKinds == FileKinds \cup OtherKinds

InitBuild ==
    /\ privileged = FALSE
    /\ \E l \in WorkDirs(BuildKinds), git \in BOOLEAN :
          workdir = IF git THEN <<DotGitDir>> \o l ELSE l
    /\ dirs = {}
    /\ files = NoFiles
    /\ wr = WrIdle
    /\ cin = CinNone
    /\ cop = "none"
    /\ cres = NoRes
    /\ tst = TstNone

BuildTree ==
    /\ cop = "none"
    /\ cop' = "build"
    /\ cres' = NewTreeObjectFromFilePath(workdir)
    /\ UNCHANGED <<privileged, workdir, dirs, files, wr, cin, tst>>

WriteTreeCmd ==
    /\ cop = "none"
    /\ cop' = "writetree"
    /\ cres' = WriteTree(workdir)
    /\ UNCHANGED <<privileged, workdir, dirs, files, wr, cin, tst>>

NextBuild == BuildTree \/ WriteTreeCmd

SpecBuild == InitBuild /\ [][NextBuild]_vars

\* the entries of a listing that a build lists
Listed(listing) == SelectSeq(listing, LAMBDA f : f.name # DotGit)

RECURSIVE HasOtherType(_)
HasOtherType(listing) ==
    \E i \in 1..Len(listing) :
        \/ listing[i].type \in OtherTypes
        \/ listing[i].type = "dir" /\ HasOtherType(Listed(listing[i].children))

\* the mode the four supported file types are to get
ModeOfType(file, dir) ==
    IF file.type = "dir" THEN dir
    ELSE IF file.type = "symlink" THEN Symlink
    ELSE IF file.exec THEN Executable
    ELSE Regular

RECURSIVE ModesFollowTypes(_, _)
ModesFollowTypes(t, listing) ==
    /\ Len(t.Entries) = Len(listing)
    /\ \A i \in 1..Len(listing) :
          /\ t.Entries[i].Mode = ModeOfType(listing[i], Dir)
          /\ listing[i].type = "dir" =>
                ModesFollowTypes(t.Entries[i].w, Listed(listing[i].children))

\* C11: a build of a directory whose listed files are directories, symbolic
\* links and regular files gives every entry the mode of its file type
\* (executable for a regular file with an execute bit, regular otherwise);
\* a build of a directory that lists a device, a FIFO or a socket returns
\* an error and no tree.
C11_ModePerFileType ==
    /\ cop = "build" =>
          IF HasOtherType(Listed(workdir))
          THEN cres.st = "err"
          ELSE cres.st = "ok" /\ ModesFollowTypes(cres.obj, Listed(workdir))
    /\ cop = "writetree" =>
          IF \E i \in 1..Len(workdir) : workdir[i].type \in OtherTypes
          THEN cres.st = "err"
          ELSE /\ cres.st = "ok"
               /\ \A i \in 1..Len(workdir) :
                     cres.obj.entries[i + 1].mode = ModeOfType(workdir[i], MainDir)

(***************************************************************************)
(* Rendering one stored object (SpecRender): the cat-file command of       *)
(* cmd/mygit, the cat-file handler of the first program, and the String    *)
(* method of a blob read by its digest.  A result's obj is the text.       *)
(***************************************************************************)
\* CatFile: the file is read and inflated, the bytes are split at every
\* NUL and the second part is returned; parts[1] panics when there is none.
CatFile(fs, priv, hash) ==
    LET r == ReadFile(fs, priv, PathOfHash(hash)) IN
    IF ~r.ok THEN Err(r.err)
    ELSE LET z == Decompress(r.data) IN
         IF z.st # "ok" THEN Err("zlib")
         ELSE LET parts == Split(z.data, NUL) IN
              IF Len(parts) < 2 THEN Panic ELSE Ok(parts[2])

\* handleCatFile with the flag -p: the same steps, the text is printed, and
\* an error ends the process with status 1.
handleCatFile(fs, priv, hash) ==
    IF Len(hash) # 2 * ShaLen THEN Err("Invalid hash")
    ELSE LET r == ReadFile(fs, priv, PathOfHash(hash)) IN
         IF ~r.ok THEN Err(r.err)
         ELSE LET z == Decompress(r.data) IN
              IF z.st # "ok" THEN Err("zlib")
              ELSE LET parts == Split(z.data, NUL) IN
                   IF Len(parts) < 2 THEN Panic ELSE Ok(parts[2])

\* BlobObject.String: fmt.Sprintf("%s", b.Content)
BlobString(b) == b.Content

CatFileCmd ==
    /\ cop = "none"
    /\ cop' = "cat"
    /\ cres' = IF Len(CodecHash) # 2 * ShaLen THEN Err("Invalid hash")
               ELSE CatFile(files, privileged, CodecHash)
    /\ UNCHANGED <<privileged, workdir, dirs, files, wr, cin, tst>>

HandleCatFileCmd ==
    /\ cop = "none"
    /\ cop' = "handlecat"
    /\ cres' = handleCatFile(files, privileged, CodecHash)
    /\ UNCHANGED <<privileged, workdir, dirs, files, wr, cin, tst>>

\* NewBlobObjectFromHash, and String of the blob when the error is nil; with
\* (nil, nil) the method's value receiver dereferences a nil pointer.
RenderBlob ==
    /\ cop = "none"
    /\ cop' = "string"
    /\ cres' = LET r == NewBlobObjectFromHash(files, privileged, CodecHash) IN
               IF r.st = "ok" THEN Ok(BlobString(r.obj))
               ELSE IF r.st = "nilnil" THEN Panic
               ELSE r
    /\ UNCHANGED <<privileged, workdir, dirs, files, wr, cin, tst>>

NextRender == CatFileCmd \/ HandleCatFileCmd \/ RenderBlob

SpecRender == InitCodec /\ [][NextRender]_vars

\* C12: rendering the stored blob "blob <len(p)>\0" + p gives p, all the
\* bytes after the first NUL of the decoded object, for every payload p,
\* also one that holds NUL bytes.
C12_RenderIsWholePayload ==
    cop \in {"cat", "handlecat", "string"} =>
        \A n \in 0..Len(cin.raw) :
            LET p == SubSeq(cin.raw, n + 1, Len(cin.raw)) IN
            cin.raw = BlobEncoding(p) =>
                /\ cres.st = "ok"
                /\ cres.obj = p
                /\ cres.obj = Cut(cin.raw, NUL).after

====
